---- MODULE Spec2Model ----
(***************************************************************************)
(* Board state synchronisation and interaction engine of the chess sample. *)
(*                                                                         *)
(* Three source variants of ChessGame are modelled side by side; the       *)
(* variable `variant` fixes which one a behaviour runs:                    *)
(*   "click"  - src/unnamed/part_003 (the same handler logic is repeated   *)
(*              in src/unnamed/part_002, lines 138-646)                    *)
(*   "drag"   - src/unnamed/part_001 (grab-and-drop input)                 *)
(*   "oldest" - src/unnamed/part_002, lines 795-1256                       *)
(*                                                                         *)
(* The rules engine (the `chess` package) is an external collaborator; it  *)
(* is modelled from its interface as a small board game on a 2 x 3 board   *)
(* with three pieces that step to adjacent squares.                         *)
(***************************************************************************)
EXTENDS Integers, Sequences, FiniteSets, TLC

\* Largest number of engine moves explored in one session.
MaxMoves == 2

\* Number of users that can hover at the same time.
MaxHover == 2

Null == "null"

Variants == {"click", "drag", "oldest"}

(***************************************************************************)
(* Coordinates, squares and pieces                                         *)
(***************************************************************************)
Files == {"a", "b"}
Ranks == {1, 2, 3}
Squares == Files \X Ranks

\* The position of a piece that is not on the board.
Off == <<"off", 0>>

fileIndices == [f \in Files |-> IF f = "a" THEN 0 ELSE 1]

\* board.squares is iterated in this order (file-major, as the boards are built).
SquareIndex(sq) == fileIndices[sq[1]] * Cardinality(Ranks) + sq[2]

Pieces == {"wk", "wp", "bk"}

SideOf(p) == IF p \in {"wk", "wp"} THEN "white" ELSE "black"

IsKing(p) == p \in {"wk", "bk"}

Other(side) == IF side = "white" THEN "black" ELSE "white"

InitialBoard == [p \in Pieces |->
                   CASE p = "wk" -> <<"a", 1>>
                     [] p = "wp" -> <<"b", 1>>
                     [] p = "bk" -> <<"a", 3>>]

Abs(n) == IF n < 0 THEN -n ELSE n

Adjacent(s, t) ==
    /\ s # t
    /\ Abs(fileIndices[s[1]] - fileIndices[t[1]]) <= 1
    /\ Abs(s[2] - t[2]) <= 1

(***************************************************************************)
(* The rules engine: getStatus                                             *)
(***************************************************************************)
PieceAt(board, sq) ==
    IF \E p \in Pieces : board[p] = sq
    THEN CHOOSE p \in Pieces : board[p] = sq
    ELSE Null

\* The squares piece p may move to when it is `side`'s turn.
Destinations(board, side, p) ==
    IF board[p] = Off \/ SideOf(p) # side
    THEN {}
    ELSE {sq \in Squares :
            /\ Adjacent(board[p], sq)
            /\ LET q == PieceAt(board, sq)
               IN  q = Null \/ (SideOf(q) # side /\ ~IsKing(q))}

NoMove == [src |-> Null, squares |-> {}]

\* board.squares, in the order the engine lists them.
BoardSquares == [i \in 1..Cardinality(Squares) |->
                   CHOOSE s \in Squares : SquareIndex(s) = i]

\* Status.validMoves: one entry per piece with at least one legal move, in
\* the order of the squares the pieces stand on.
ValidMoves(board, side) ==
    LET entry(sq) == LET p == PieceAt(board, sq)
                     IN  IF p = Null
                         THEN NoMove
                         ELSE [src |-> p, squares |-> Destinations(board, side, p)]
        entries == [i \in DOMAIN BoardSquares |-> entry(BoardSquares[i])]
        HasMove(e) == e.squares # {}
    IN  SelectSeq(entries, HasMove)

KingOf(side) == IF side = "white" THEN "wk" ELSE "bk"

\* Status.isCheck: the king of the side to move is attacked.
IsCheck(board, side) ==
    /\ board[KingOf(side)] # Off
    /\ \E q \in Pieces :
          /\ SideOf(q) # side
          /\ board[q] # Off
          /\ Adjacent(board[q], board[KingOf(side)])

\* A Status kept from the start of the game instead of the current one.
getStatus_Initial(s) ==
    [board      |-> InitialBoard,
     isCheck    |-> IsCheck(InitialBoard, "white"),
     validMoves |-> ValidMoves(InitialBoard, "white")]

getStatus(s) ==
    [board      |-> s.pos,
     isCheck    |-> IsCheck(s.pos, s.turn),
     validMoves |-> ValidMoves(s.pos, s.turn)]

(***************************************************************************)
(* State                                                                   *)
(***************************************************************************)
VARIABLES
    variant,        \* which source variant runs
    phase,          \* position of started(): "init", "preloading", "awaiting", "running", "failed"
    entity,         \* creation status of each batch of actors
    pos,            \* engine: piece -> square, or Off once captured
    turn,           \* engine: side to move
    nMoves,         \* engine: moves made so far
    selectedActor,  \* this.selectedActor (a piece actor or Null)
    moveMarkers,    \* squares whose move marker is at board height
    checkMarker,    \* square the check marker is on, Off when hidden
    selectedMarker, \* square the selected marker is on, Off when hidden
    actorPos,       \* last position commanded for (or dropped at) each piece actor
    shrinking,      \* captured actors whose shrink-out runs and whose destroy is scheduled
    destroyed,      \* actors that were destroyed
    hovered,        \* environment: piece actors some user's cursor is on
    grabbed,        \* environment: the piece actor a user holds, or Null
    last,           \* record of the most recent handler run: its handler and
                    \* arguments, whether the run before it was the same
                    \* handler on the same arguments, the steps it took, its
                    \* engine calls, the differ's output, whether it threw
    binding,        \* how often square.actor, square.marker (per square) and
                    \* piece.actor (per piece) were assigned
    diffInput       \* the two boards handed to the differ when it is run on
                    \* its own

chessVars == <<variant, phase, entity, pos, turn, nMoves, selectedActor,
               moveMarkers, checkMarker, selectedMarker, actorPos, shrinking,
               destroyed, hovered, grabbed, last, binding, diffInput>>

\* The tic-tac-toe sample (samples/tic-tac-toe/tutorial-steps/Step-5/app.ts).
VARIABLES
    gameState,               \* this.gameState: "Intro", "Play" or "Celebration"
    boardState,              \* this.boardState: cell 0..8 -> Undefined, "X" or "O"
    currentPlayerGamePiece,  \* this.currentPlayerGamePiece
    nextPlayerGamePiece,     \* this.nextPlayerGamePiece
    textContents,            \* this.text.text.contents
    gamePieceActors,         \* this.gamePieceActors: cell -> number of piece actors
                             \* the array holds that were put on that cell
    livePieces,              \* cell -> number of piece actors put on that cell that
                             \* exist in the world
    tttLast                  \* the most recent cube handler run: its handler, its
                             \* cell, the animation commands and the winners announced

tttVars == <<gameState, boardState, currentPlayerGamePiece, nextPlayerGamePiece,
             textContents, gamePieceActors, livePieces, tttLast>>

\* The wear-a-hat sample (samples/wear-a-hat/src/app.ts).
VARIABLES
    prefabs,       \* this.prefabs: the hat ids whose model was preloaded
    attachedHats,  \* this.attachedHats: user -> index of its hat actor, 0 for no entry
    hatActors,     \* every hat actor created so far: its user, its hat, destroyed or not
    present,       \* environment: the users in the session
    hatLast        \* the most recent handler run

hatVars == <<prefabs, attachedHats, hatActors, present, hatLast>>

otherSamples == <<tttVars, hatVars>>

vars == <<chessVars, tttVars, hatVars>>

(***************************************************************************)
(* Tic-tac-toe                                                             *)
(***************************************************************************)
Undefined == "undefined"

GamePiece == {"X", "O"}

Cells == 0..8

\* The cube at (tileIndexX, tileIndexZ) is cell tileIndexX * 3 + tileIndexZ.
victoryChecks ==
    << <<0 * 3 + 0, 0 * 3 + 1, 0 * 3 + 2>>,
       <<1 * 3 + 0, 1 * 3 + 1, 1 * 3 + 2>>,
       <<2 * 3 + 0, 2 * 3 + 1, 2 * 3 + 2>>,
       <<0 * 3 + 0, 1 * 3 + 0, 2 * 3 + 0>>,
       <<0 * 3 + 1, 1 * 3 + 1, 2 * 3 + 1>>,
       <<0 * 3 + 2, 1 * 3 + 2, 2 * 3 + 2>>,
       <<0 * 3 + 0, 1 * 3 + 1, 2 * 3 + 2>>,
       <<2 * 3 + 0, 1 * 3 + 1, 0 * 3 + 2>> >>

IntroText == "Tic-Tac-Toe Click To Play"

FirstPieceText(piece) == IF piece = "X" THEN "First Piece: X" ELSE "First Piece: O"

NextPieceText(piece) == IF piece = "X" THEN "Next Piece: X" ELSE "Next Piece: O"

WinnerText(piece) == IF piece = "X" THEN "Winner: X" ELSE "Winner: O"

EmptyBoardState == [c \in Cells |-> Undefined]

NoActors == [c \in Cells |-> 0]

\* The working state a cube handler reads and writes.
TicTacToeCur ==
    [gameState |-> gameState,
     boardState |-> boardState,
     currentPlayerGamePiece |-> currentPlayerGamePiece,
     nextPlayerGamePiece |-> nextPlayerGamePiece,
     text |-> textContents,
     gamePieceActors |-> gamePieceActors,
     live |-> livePieces,
     anims |-> <<>>,
     announced |-> <<>>]

\* cube.targetingAnimationsByName.get(name).play() or .stop()
Animate(s, name, command) == [s EXCEPT !.anims = Append(@, <<name, command>>)]

beginGameStateCelebration(s, winner) ==
    [s EXCEPT !.gameState = "Celebration",
              !.text = IF winner = Undefined THEN "Tie" ELSE WinnerText(winner),
              !.announced = Append(@, winner)]

\* The beginGameStateIntro that leaves the board and the game pieces of the
\* finished game in place.
beginGameStateIntro_KeepActors(s) ==
    [s EXCEPT !.gameState = "Intro",
              !.text = IntroText,
              !.currentPlayerGamePiece = "X",
              !.nextPlayerGamePiece = "O"]

beginGameStateIntro(s) ==
    [s EXCEPT !.gameState = "Intro",
              !.text = IntroText,
              !.currentPlayerGamePiece = "X",
              !.nextPlayerGamePiece = "O",
              !.boardState = EmptyBoardState,
              !.live = [c \in Cells |-> @[c] - s.gamePieceActors[c]],
              !.gamePieceActors = NoActors]

beginGameStatePlay(s) ==
    [s EXCEPT !.gameState = "Play",
              !.text = FirstPieceText(s.currentPlayerGamePiece)]

\* Some victory check finds its three cells marked alike.
VictoryCheckHits(board) ==
    \E i \in DOMAIN victoryChecks :
       /\ board[victoryChecks[i][1]] # Undefined
       /\ board[victoryChecks[i][1]] = board[victoryChecks[i][2]]
       /\ board[victoryChecks[i][1]] = board[victoryChecks[i][3]]

\* The placePiece that does not pass the turn.
placePiece_NoSwap(s, cell) ==
    LET tempGamePiece == s.currentPlayerGamePiece
        put == [s EXCEPT !.gamePieceActors[cell] = @ + 1,
                         !.live[cell] = @ + 1,
                         !.boardState[cell] = tempGamePiece]
        shrunk == Animate(Animate(put, "GrowIn", "stop"), "ShrinkOut", "play")
        checked == IF VictoryCheckHits(shrunk.boardState)
                   THEN beginGameStateCelebration(shrunk, tempGamePiece)
                   ELSE shrunk
        hasEmptySpace == \E i \in Cells : checked.boardState[i] = Undefined
    IN  IF hasEmptySpace = FALSE
        THEN beginGameStateCelebration(checked, Undefined)
        ELSE checked

\* The Play case of the click handler on an empty cell: put down a piece,
\* pass the turn, run the victory checks (stopping at the first hit), then
\* the empty-space check.
placePiece(s, cell) ==
    LET tempGamePiece == s.currentPlayerGamePiece
        put == [s EXCEPT !.gamePieceActors[cell] = @ + 1,
                         !.live[cell] = @ + 1,
                         !.boardState[cell] = tempGamePiece]
        shrunk == Animate(Animate(put, "GrowIn", "stop"), "ShrinkOut", "play")
        passed == [shrunk EXCEPT !.currentPlayerGamePiece = s.nextPlayerGamePiece,
                                 !.nextPlayerGamePiece = tempGamePiece,
                                 !.text = NextPieceText(s.nextPlayerGamePiece)]
        checked == IF VictoryCheckHits(passed.boardState)
                   THEN beginGameStateCelebration(passed, tempGamePiece)
                   ELSE passed
        hasEmptySpace == \E i \in Cells : checked.boardState[i] = Undefined
    IN  IF hasEmptySpace = FALSE
        THEN beginGameStateCelebration(checked, Undefined)
        ELSE checked

\* The onClick that puts a piece down on an occupied cell as well.
onClick_NoGuard(s, cell) ==
    CASE s.gameState = "Intro" -> Animate(beginGameStatePlay(s), "GrowIn", "play")
      [] s.gameState = "Play" -> placePiece(s, cell)
      [] OTHER -> beginGameStateIntro(s)

onClick(s, cell) ==
    CASE s.gameState = "Intro" -> Animate(beginGameStatePlay(s), "GrowIn", "play")
      [] s.gameState = "Play" ->
            IF s.boardState[cell] = Undefined THEN placePiece(s, cell) ELSE s
      [] OTHER -> beginGameStateIntro(s)

onHoverEnter(s, cell) ==
    IF s.gameState = "Play" /\ s.boardState[cell] = Undefined
    THEN Animate(Animate(s, "GrowIn", "play"), "ShrinkOut", "stop")
    ELSE s

onHoverExit(s, cell) ==
    IF s.gameState = "Play" /\ s.boardState[cell] = Undefined
    THEN Animate(Animate(s, "GrowIn", "stop"), "ShrinkOut", "play")
    ELSE s

NoCubeRun == [handler |-> "none", cell |-> 0, anims |-> <<>>, announced |-> <<>>]

\* The sample once startedImpl has run to its end (beginGameStateIntro).
InitTicTacToe ==
    /\ gameState = "Intro"
    /\ boardState = EmptyBoardState
    /\ currentPlayerGamePiece = "X"
    /\ nextPlayerGamePiece = "O"
    /\ textContents = IntroText
    /\ gamePieceActors = NoActors
    /\ livePieces = NoActors
    /\ tttLast = NoCubeRun

\* One cube handler run: r is the working state the handler ends in.
CubeHandled(name, cell, r) ==
    /\ gameState' = r.gameState
    /\ boardState' = r.boardState
    /\ currentPlayerGamePiece' = r.currentPlayerGamePiece
    /\ nextPlayerGamePiece' = r.nextPlayerGamePiece
    /\ textContents' = r.text
    /\ gamePieceActors' = r.gamePieceActors
    /\ livePieces' = r.live
    /\ tttLast' = [handler |-> name, cell |-> cell, anims |-> r.anims,
                   announced |-> r.announced]
    /\ UNCHANGED <<chessVars, hatVars>>

CubeClick(cell) ==
    \E r \in {onClick(TicTacToeCur, cell)} : CubeHandled("onClick", cell, r)

CubeHoverEnter(cell) ==
    \E r \in {onHoverEnter(TicTacToeCur, cell)} : CubeHandled("onHoverEnter", cell, r)

CubeHoverExit(cell) ==
    \E r \in {onHoverExit(TicTacToeCur, cell)} : CubeHandled("onHoverExit", cell, r)

(***************************************************************************)
(* Wear a hat                                                              *)
(***************************************************************************)
\* Largest number of hat actors created in one session.
MaxHatActors == 3

Users == {"u1", "u2"}

\* The hat database: two entries with a resource and the entry without.
ResourceHats == {"hat1", "hat2"}

HatIds == ResourceHats \cup {"none"}

\* The working state a handler reads and writes.
HatCur ==
    [prefabs |-> prefabs,
     attachedHats |-> attachedHats,
     hatActors |-> hatActors,
     threw |-> FALSE]

\* if (this.attachedHats[userId]) this.attachedHats[userId].destroy();
\* delete this.attachedHats[userId];
removeHat(s, userId) ==
    LET index == s.attachedHats[userId]
        destroyedHat == IF index # 0
                        THEN [s EXCEPT !.hatActors[index].destroyed = TRUE]
                        ELSE s
    IN  [destroyedHat EXCEPT !.attachedHats[userId] = 0]

\* The wearHat that attaches the new hat on top of the one worn.
wearHat_KeepOld(s, hatId, userId) ==
    IF hatId \notin ResourceHats
    THEN s
    ELSE IF hatId \notin s.prefabs
         THEN [s EXCEPT !.threw = TRUE]
         ELSE [s EXCEPT
                 !.hatActors = Append(@, [userId |-> userId, hatId |-> hatId,
                                          destroyed |-> FALSE]),
                 !.attachedHats[userId] = Len(s.hatActors) + 1]

\* Reading this.prefabs[hatId].prefabs throws when the preload of hatId
\* failed (preloadHats logs the error and goes on).
wearHat(s, hatId, userId) ==
    LET removed == removeHat(s, userId)
    IN  IF hatId \notin ResourceHats
        THEN removed
        ELSE IF hatId \notin removed.prefabs
             THEN [removed EXCEPT !.threw = TRUE]
             ELSE [removed EXCEPT
                     !.hatActors = Append(@, [userId |-> userId, hatId |-> hatId,
                                              destroyed |-> FALSE]),
                     !.attachedHats[userId] = Len(removed.hatActors) + 1]

userLeft(s, userId) == removeHat(s, userId)

NoHatRun == [handler |-> "none", userId |-> "none", hatId |-> "none", threw |-> FALSE]

HatFields ==
    /\ attachedHats = [u \in Users |-> 0]
    /\ hatActors = <<>>
    /\ present = {}
    /\ hatLast = NoHatRun

\* The sample once started() has preloaded the hats (each preload may have
\* failed) and shown the menu.
InitHat ==
    /\ prefabs \in SUBSET ResourceHats
    /\ HatFields

HatHandled(name, userId, hatId, r) ==
    /\ Len(r.hatActors) <= MaxHatActors
    /\ attachedHats' = r.attachedHats
    /\ hatActors' = r.hatActors
    /\ hatLast' = [handler |-> name, userId |-> userId, hatId |-> hatId,
                   threw |-> r.threw]
    /\ UNCHANGED <<prefabs, chessVars, tttVars>>

\* A user joins the session (the sample hooks no handler to it).
UserJoined(userId) ==
    /\ userId \notin present
    /\ present' = present \cup {userId}
    /\ UNCHANGED <<prefabs, attachedHats, hatActors, hatLast, chessVars, tttVars>>

\* A user in the session clicks the menu button of hatId.
WearHat(hatId, userId) ==
    /\ userId \in present
    /\ \E r \in {wearHat(HatCur, hatId, userId)} : HatHandled("wearHat", userId, hatId, r)
    /\ UNCHANGED present

UserLeft(userId) ==
    /\ userId \in present
    /\ present' = present \ {userId}
    /\ \E r \in {userLeft(HatCur, userId)} : HatHandled("userLeft", userId, "none", r)

(***************************************************************************)
(* Chess: working state                                                    *)
(***************************************************************************)

EmptyBoard == [p \in {} |-> Off]

\* The working state a handler reads and writes, built from the variables.
Cur(fault) ==
    [variant   |-> variant,
     sel       |-> selectedActor,
     markers   |-> moveMarkers,
     check     |-> checkMarker,
     selMarker |-> selectedMarker,
     pos       |-> pos,
     turn      |-> turn,
     nMoves    |-> nMoves,
     actorPos  |-> actorPos,
     shrinking |-> shrinking,
     fault     |-> fault,
     ops       |-> <<>>,
     moveCalls |-> <<>>,
     movements |-> {},
     captures  |-> {},
     diffRan   |-> FALSE,
     prevBoard |-> EmptyBoard,
     consulted |-> {},
     binding   |-> binding,
     threw     |-> FALSE]

Op(s, name) == [s EXCEPT !.ops = Append(@, name)]

Throw(s) == [s EXCEPT !.threw = TRUE]

\* status = this.game.getStatus() followed by a use of status.validMoves:
\* notes the list that is consulted and the number of moves made by then.
Consult(s) ==
    [s EXCEPT !.consulted = @ \cup {[at |-> s.nMoves,
                                     list |-> getStatus(s).validMoves]}]

(***************************************************************************)
(* Markers                                                                 *)
(***************************************************************************)
hideMoveMarkers(s) == Op([s EXCEPT !.markers = {}], "hideMoveMarkers")

hideCheckMarker(s) == Op([s EXCEPT !.check = Off], "hideCheckMarker")

showCheckMarker(s, square) == Op([s EXCEPT !.check = square], "showCheckMarker")

hideSelectedMarker(s) == Op([s EXCEPT !.selMarker = Off], "hideSelectedMarker")

\* The engine's 'check' event; the oldest variant only logs it.
onCheck(s, kingSquare) ==
    IF s.variant = "oldest" THEN Op(s, "onCheck") ELSE showCheckMarker(s, kingSquare)

(***************************************************************************)
(* The rules engine: move                                                  *)
(***************************************************************************)
\* game.move(src, dst): throws when the engine faults, else moves the piece
\* on src to dst, removes a piece standing on dst, passes the turn and
\* raises 'check' when the side now to move is in check.
gameMove(s, src, dst) ==
    LET called == [s EXCEPT !.moveCalls = Append(@, <<src, dst>>),
                            !.ops = Append(@, "move")]
    IN  IF s.fault
        THEN Throw(called)
        ELSE LET p == PieceAt(s.pos, src)
                 q == PieceAt(s.pos, dst)
                 removed == IF q = Null THEN s.pos ELSE [s.pos EXCEPT ![q] = Off]
                 board == [removed EXCEPT ![p] = dst]
                 side == Other(s.turn)
                 moved == [called EXCEPT !.pos = board, !.turn = side,
                                         !.nMoves = @ + 1]
             IN  IF IsCheck(board, side)
                 THEN onCheck(moved, board[KingOf(side)])
                 ELSE moved

(***************************************************************************)
(* Snapshot differ and animation                                           *)
(***************************************************************************)
\* Returns a sparse board, only occupied squares, keyed by piece actor.
readOccupiedBoard(board) ==
    [p \in {q \in Pieces : board[q] # Off} |-> board[p]]

\* The movements the differ collects: the drag variant pushes one for every
\* piece found in both boards, the others only when file or rank differ.
DiffMovements(v, oldBoard, newBoard) ==
    {[actor |-> k, oldSquare |-> oldBoard[k], newSquare |-> newBoard[k]] :
        k \in {j \in DOMAIN oldBoard \cap DOMAIN newBoard :
                 v = "drag" \/ newBoard[j] # oldBoard[j]}}

\* A capture for every piece the new board lacks, captured earlier or not.
DiffCaptures_AllAbsent(oldBoard, newBoard) ==
    {[actor |-> k, oldSquare |-> Off] : k \in Pieces \ DOMAIN newBoard}

DiffCaptures(oldBoard, newBoard) ==
    {[actor |-> k, oldSquare |-> oldBoard[k]] :
        k \in DOMAIN oldBoard \ DOMAIN newBoard}

\* The differ assigning piece.actor again for every piece it moves.
animateActorMovements_Rebind(s, oldBoard, newBoard) ==
    LET movements == DiffMovements(s.variant, oldBoard, newBoard)
        captures  == DiffCaptures(oldBoard, newBoard)
        moved     == {m.actor : m \in movements}
        target(k) == (CHOOSE m \in movements : m.actor = k).newSquare
    IN  [s EXCEPT !.movements = movements,
                  !.captures  = captures,
                  !.diffRan   = TRUE,
                  !.actorPos  = [k \in Pieces |->
                                   IF k \in moved THEN target(k) ELSE @[k]],
                  !.shrinking = @ \cup {c.actor : c \in captures},
                  !.binding.piece = [k \in Pieces |->
                                       IF k \in moved THEN @[k] + 1 ELSE @[k]],
                  !.ops       = @ \o <<"diff", "animate">>]

\* animateMovement sends each moved actor to its new square; animateCapture
\* starts the shrink-out and schedules the destroy.
animateActorMovements(s, oldBoard, newBoard) ==
    LET movements == DiffMovements(s.variant, oldBoard, newBoard)
        captures  == DiffCaptures(oldBoard, newBoard)
        moved     == {m.actor : m \in movements}
        target(k) == (CHOOSE m \in movements : m.actor = k).newSquare
    IN  [s EXCEPT !.movements = movements,
                  !.captures  = captures,
                  !.diffRan   = TRUE,
                  !.actorPos  = [k \in Pieces |->
                                   IF k \in moved THEN target(k) ELSE @[k]],
                  !.shrinking = @ \cup {c.actor : c \in captures},
                  !.ops       = @ \o <<"diff", "animate">>]

(***************************************************************************)
(* Selection and move markers                                              *)
(***************************************************************************)
Min(S) == CHOOSE x \in S : \A y \in S : x <= y

\* list.filter(pred).shift(): the first matching entry, or none.
FirstMove(list, Match(_)) ==
    LET hits == {i \in DOMAIN list : Match(list[i])}
    IN  IF hits = {} THEN NoMove ELSE list[Min(hits)]

\* The validMoves entry of the piece `actor` belongs to. The oldest variant
\* also accepts the entry of the selected actor, whichever comes first.
validMovesForActor(s, actor) ==
    IF actor = Null
    THEN NoMove
    ELSE LET list == getStatus(s).validMoves
             own(item) == item.src = actor
             ownOrSelected(item) ==
                 item.src = actor \/ (s.sel # Null /\ item.src = s.sel)
         IN  IF s.variant = "oldest"
             THEN FirstMove(list, ownOrSelected)
             ELSE FirstMove(list, own)

\* The square a piece actor stands on, Off when it is on no square. The
\* oldest variant looks up the selected actor whatever actor it is given.
squareForActor(s, actor) ==
    IF s.variant = "oldest" THEN s.pos[s.sel] ELSE s.pos[actor]

showValidMoves(s, moveSets) ==
    Op([s EXCEPT !.markers = @ \cup UNION {m.squares : m \in moveSets}],
       "showValidMoves")

\* Hides every marker, then shows those of `actor` and, except in the drag
\* variant, those of the selected actor.
showMoveMarkers(s, actor) ==
    LET hidden == IF actor # Null \/ s.sel # Null
                  THEN Consult(hideMoveMarkers(s))
                  ELSE hideMoveMarkers(s)
        actorMoveSet == validMovesForActor(s, actor)
        selectedActorMoveSet == validMovesForActor(s, s.sel)
    IN  IF s.variant = "drag"
        THEN showValidMoves(hidden, {actorMoveSet})
        ELSE showValidMoves(hidden, {actorMoveSet, selectedActorMoveSet})

\* Throws in the click variant when the selected actor is on no square; the
\* oldest variant skips the placement instead.
showSelectedMarker(s) ==
    LET hidden == hideSelectedMarker(s)
        square == squareForActor(s, s.sel)
    IN  IF s.sel = Null
        THEN hidden
        ELSE IF square = Off
             THEN IF s.variant = "oldest" THEN hidden ELSE Throw(hidden)
             ELSE Op([hidden EXCEPT !.selMarker = square], "showSelectedMarker")

deselectPiece_KeepSelection(s) ==
    hideMoveMarkers(hideSelectedMarker(s))

deselectPiece(s) ==
    Op([hideMoveMarkers(hideSelectedMarker(s)) EXCEPT !.sel = Null], "clearSelection")

\* [threw, result, fetched]: whether targetActor stands on a legal
\* destination of the selected actor, and whether validMoves was fetched to
\* decide it. The click variant reads the target square's file without
\* checking that the target is on a square.
isValidTarget(s, sourceActor, targetActor) ==
    IF sourceActor = Null \/ targetActor = Null
    THEN [threw |-> FALSE, result |-> FALSE, fetched |-> FALSE]
    ELSE LET targetSquare == squareForActor(s, targetActor)
             validMove == validMovesForActor(s, s.sel)
         IN  IF targetSquare = Off /\ s.variant = "oldest"
             THEN [threw |-> FALSE, result |-> FALSE, fetched |-> FALSE]
             ELSE IF validMove = NoMove
                  THEN [threw |-> FALSE, result |-> FALSE, fetched |-> TRUE]
                  ELSE IF targetSquare = Off
                       THEN [threw |-> TRUE, result |-> FALSE, fetched |-> TRUE]
                       ELSE [threw |-> FALSE,
                             result |-> targetSquare \in validMove.squares,
                             fetched |-> TRUE]

(***************************************************************************)
(* Input handlers                                                          *)
(***************************************************************************)
\* The move branch without its last two statements.
makeMove_KeepSelection(s, status, move, square) ==
    LET cleared == IF s.variant = "oldest"
                   THEN s
                   ELSE hideCheckMarker(hideMoveMarkers(s))
        prevBoard == readOccupiedBoard(status.board)
        before == Op([cleared EXCEPT !.prevBoard = prevBoard], "readPrevBoard")
        result == gameMove(before, status.board[move.src], square)
    IN  IF result.threw
        THEN result
        ELSE LET fetched == Op(result, "getStatus")
                 newBoard == readOccupiedBoard(getStatus(fetched).board)
             IN  animateActorMovements(Op(fetched, "readNewBoard"),
                                       prevBoard, newBoard)

\* The move branch of clickOnSquare.
makeMove(s, status, move, square) ==
    LET cleared == IF s.variant = "oldest"
                   THEN s
                   ELSE hideCheckMarker(hideMoveMarkers(s))
        prevBoard == readOccupiedBoard(status.board)
        before == Op([cleared EXCEPT !.prevBoard = prevBoard], "readPrevBoard")
        result == gameMove(before, status.board[move.src], square)
    IN  IF result.threw
        THEN result
        ELSE LET fetched == Op(result, "getStatus")
                 newBoard == readOccupiedBoard(getStatus(fetched).board)
                 animated == animateActorMovements(Op(fetched, "readNewBoard"),
                                                   prevBoard, newBoard)
             IN  Op([hideSelectedMarker(animated) EXCEPT !.sel = Null],
                    "clearSelection")

clickOnSquare(s, square) ==
    IF s.sel = Null
    THEN s
    ELSE LET status == getStatus(s)
             selected(item) == item.src = s.sel
             move == FirstMove(status.validMoves, selected)
             fetched == Consult(Op(s, "getStatus"))
         IN  IF move # NoMove /\ square \in move.squares
             THEN makeMove(fetched, status, move, square)
             ELSE IF s.variant = "oldest" THEN fetched ELSE deselectPiece(fetched)

\* The last branch of clickOnPiece: make `actor` the selected actor.
selectPiece(s, actor) ==
    LET marked == showSelectedMarker([s EXCEPT !.sel = actor])
    IN  IF marked.threw THEN marked ELSE showMoveMarkers(marked, actor)

clickOnPiece(s, actor) ==
    IF s.sel = actor
    THEN deselectPiece(s)
    ELSE LET target == isValidTarget(s, s.sel, actor)
             decided == IF target.fetched THEN Consult(s) ELSE s
         IN  IF target.threw
             THEN Throw(decided)
             ELSE IF target.result
                  THEN IF s.variant = "oldest"
                       THEN decided
                       ELSE clickOnSquare(decided, squareForActor(s, actor))
                  ELSE selectPiece(decided, actor)

startHoverPiece(s, actor) == showMoveMarkers(s, actor)

stopHoverPiece(s, actor) == showMoveMarkers(s, Null)

onDragBegin(s, actor) == showMoveMarkers(s, actor)

\* dropSquare is nearestSquare(actor position), the square the actor was
\* dropped on.
onDragEnd(s, actor, dropSquare) ==
    LET cleared == hideCheckMarker(hideMoveMarkers(s))
        status == getStatus(cleared)
        prevBoard == readOccupiedBoard(status.board)
        before == Consult(Op([Op(cleared, "getStatus") EXCEPT !.prevBoard = prevBoard],
                             "readPrevBoard"))
        dragged(item) == item.src = actor
        move == FirstMove(status.validMoves, dragged)
        result == IF move # NoMove /\ dropSquare \in move.squares
                  THEN gameMove(before, status.board[move.src], dropSquare)
                  ELSE before
    IN  IF result.threw
        THEN result
        ELSE LET fetched == Op(result, "getStatus")
                 newBoard == readOccupiedBoard(getStatus(fetched).board)
             IN  animateActorMovements(Op(fetched, "readNewBoard"),
                                       prevBoard, newBoard)

(***************************************************************************)
(* Setup: started()                                                        *)
(***************************************************************************)
AllBatches == {"root", "boardOffset", "squares", "pieces", "moveMarkers",
               "checkMarker", "selectedMarker"}

\* The actors started() creates; the drag variant has no selected marker,
\* the others have no board offset.
Batches(v) ==
    IF v = "drag"
    THEN AllBatches \ {"selectedMarker"}
    ELSE AllBatches \ {"boardOffset"}

\* The actor whose id a create call passes as parentId.
Parent(v, b) ==
    CASE b = "root" -> Null
      [] b = "boardOffset" -> "root"
      [] OTHER -> IF v = "drag" THEN "boardOffset" ELSE "root"

\* The creations whose completion the join waits for. createChessBoard,
\* createChessPieces and createMoveMarkers return arrays, which Promise.all
\* takes as plain values; the oldest variant pushes every creation onto one
\* flat list.
Awaited(v) ==
    IF v = "oldest"
    THEN Batches(v)
    ELSE Batches(v) \ {"boardOffset", "squares", "pieces", "moveMarkers"}

NoRun == [handler |-> "none", actor |-> Null, square |-> Off, again |-> FALSE,
          ops |-> <<>>, moveCalls |-> <<>>, movements |-> {}, captures |-> {},
          diffRan |-> FALSE, prevBoard |-> EmptyBoard, consulted |-> {},
          threw |-> FALSE]

\* No binding is assigned before the create functions run.
Unbound ==
    [actor  |-> [sq \in Squares |-> 0],
     marker |-> [sq \in Squares |-> 0],
     piece  |-> [p \in Pieces |-> 0]]

\* createChessBoard, createChessPieces and createMoveMarkers assign
\* square.actor, square.piece.actor and square.marker once each.
Bound ==
    [actor  |-> [sq \in Squares |-> 1],
     marker |-> [sq \in Squares |-> 1],
     piece  |-> [p \in Pieces |-> 1]]

NoDiffInput == [old |-> EmptyBoard, new |-> EmptyBoard]

InitGame ==
    /\ variant \in Variants
    /\ diffInput = NoDiffInput
    /\ pos = InitialBoard
    /\ turn = "white"
    /\ nMoves = 0
    /\ selectedActor = Null
    /\ moveMarkers = {}
    /\ checkMarker = Off
    /\ selectedMarker = Off
    /\ actorPos = InitialBoard
    /\ shrinking = {}
    /\ destroyed = {}
    /\ hovered = {}
    /\ grabbed = Null
    /\ last = NoRun

\* The session before the context has started.
InitSetup ==
    /\ InitGame
    /\ phase = "init"
    /\ entity = [b \in AllBatches |-> "none"]
    /\ binding = Unbound
    /\ InitTicTacToe
    /\ prefabs = {}
    /\ HatFields

\* The session once started() has run to its end with every actor created.
Init ==
    /\ InitGame
    /\ phase = "running"
    /\ entity = [b \in AllBatches |-> IF b \in Batches(variant) THEN "created" ELSE "none"]
    /\ binding = Bound
    /\ InitTicTacToe
    /\ prefabs = {}
    /\ HatFields

gameVars == <<pos, turn, nMoves, selectedActor, moveMarkers, checkMarker,
              selectedMarker, actorPos, shrinking, destroyed, hovered, grabbed, last,
              diffInput>>

\* The context starts: the game is created and the model preloads begin.
Started ==
    /\ phase = "init"
    /\ phase' = "preloading"
    /\ UNCHANGED <<variant, entity, binding, gameVars, otherSamples>>

\* preloadAllModels resolves: every create function runs and the join begins.
PreloadResolves ==
    /\ phase = "preloading"
    /\ phase' = "awaiting"
    /\ entity' = [b \in AllBatches |->
                    IF b \in Batches(variant) THEN "pending" ELSE "none"]
    /\ binding' = Bound
    /\ UNCHANGED <<variant, gameVars, otherSamples>>

\* A preload fails: started() rejects.
PreloadRejects ==
    /\ phase = "preloading"
    /\ phase' = "failed"
    /\ UNCHANGED <<variant, entity, binding, gameVars, otherSamples>>

CreationCompletes(b) ==
    /\ entity[b] = "pending"
    /\ entity' = [entity EXCEPT ![b] = "created"]
    /\ UNCHANGED <<variant, phase, binding, gameVars, otherSamples>>

CreationFails(b) ==
    /\ entity[b] = "pending"
    /\ entity' = [entity EXCEPT ![b] = "failed"]
    /\ UNCHANGED <<variant, phase, binding, gameVars, otherSamples>>

\* Promise.all resolves: addEventHandlers runs.
addEventHandlers ==
    /\ phase = "awaiting"
    /\ \A b \in Awaited(variant) : entity[b] = "created"
    /\ phase' = "running"
    /\ UNCHANGED <<variant, entity, binding, gameVars, otherSamples>>

\* Promise.all rejects: started() rejects before addEventHandlers.
JoinRejects ==
    /\ phase = "awaiting"
    /\ \E b \in Awaited(variant) : entity[b] = "failed"
    /\ phase' = "failed"
    /\ UNCHANGED <<variant, entity, binding, gameVars, otherSamples>>

(***************************************************************************)
(* Input events                                                            *)
(***************************************************************************)
\* One handler run: r is the working state the handler ends in.
Handled(name, actor, square, r) ==
    /\ phase = "running"
    /\ r.nMoves <= MaxMoves
    /\ selectedActor' = r.sel
    /\ moveMarkers' = r.markers
    /\ checkMarker' = r.check
    /\ selectedMarker' = r.selMarker
    /\ pos' = r.pos
    /\ turn' = r.turn
    /\ nMoves' = r.nMoves
    /\ actorPos' = r.actorPos
    /\ shrinking' = r.shrinking
    /\ binding' = r.binding
    /\ last' = [handler |-> name, actor |-> actor, square |-> square,
                again |-> (last.handler = name /\ last.actor = actor
                           /\ last.square = square),
                ops |-> r.ops, moveCalls |-> r.moveCalls,
                movements |-> r.movements, captures |-> r.captures,
                diffRan |-> r.diffRan, prevBoard |-> r.prevBoard,
                consulted |-> r.consulted, threw |-> r.threw]
    /\ UNCHANGED <<variant, phase, entity, destroyed, diffInput, otherSamples>>

ClickOnSquare(square, fault) ==
    /\ variant # "drag"
    /\ \E r \in {clickOnSquare(Cur(fault), square)} :
          Handled("clickOnSquare", Null, square, r)
    /\ UNCHANGED <<hovered, grabbed>>

ClickOnPiece(actor, fault) ==
    /\ variant # "drag"
    /\ actor \notin destroyed
    /\ \E r \in {clickOnPiece(Cur(fault), actor)} :
          Handled("clickOnPiece", actor, Off, r)
    /\ UNCHANGED <<hovered, grabbed>>

StartHoverPiece(actor) ==
    /\ actor \notin destroyed
    /\ actor \notin hovered
    /\ Cardinality(hovered) < MaxHover
    /\ hovered' = hovered \cup {actor}
    /\ \E r \in {startHoverPiece(Cur(FALSE), actor)} :
          Handled("startHoverPiece", actor, Off, r)
    /\ UNCHANGED grabbed

StopHoverPiece(actor) ==
    /\ actor \in hovered
    /\ hovered' = hovered \ {actor}
    /\ \E r \in {stopHoverPiece(Cur(FALSE), actor)} :
          Handled("stopHoverPiece", actor, Off, r)
    /\ UNCHANGED grabbed

DragBegin(actor) ==
    /\ variant = "drag"
    /\ actor \notin destroyed
    /\ grabbed = Null
    /\ grabbed' = actor
    /\ \E r \in {onDragBegin(Cur(FALSE), actor)} :
          Handled("onDragBegin", actor, Off, r)
    /\ UNCHANGED hovered

\* The user lets go of the actor over dropSquare.
DragEnd(dropSquare, fault) ==
    /\ variant = "drag"
    /\ grabbed # Null
    /\ grabbed' = Null
    /\ LET dropped == [Cur(fault) EXCEPT !.actorPos[grabbed] = dropSquare]
       IN  \E r \in {onDragEnd(dropped, grabbed, dropSquare)} :
              Handled("onDragEnd", grabbed, dropSquare, r)
    /\ UNCHANGED hovered

\* The shrink-out of a captured actor is over: the actor is destroyed.
DestroyCaptured(actor) ==
    /\ actor \in shrinking
    /\ shrinking' = shrinking \ {actor}
    /\ destroyed' = destroyed \cup {actor}
    /\ hovered' = hovered \ {actor}
    /\ grabbed' = IF grabbed = actor THEN Null ELSE grabbed
    /\ UNCHANGED <<variant, phase, entity, pos, turn, nMoves, selectedActor,
                   moveMarkers, checkMarker, selectedMarker, actorPos, last,
                   binding, diffInput, otherSamples>>

Next ==
    \/ \E sq \in Squares, fault \in BOOLEAN : ClickOnSquare(sq, fault)
    \/ \E a \in Pieces, fault \in BOOLEAN : ClickOnPiece(a, fault)
    \/ \E a \in Pieces : StartHoverPiece(a)
    \/ \E a \in Pieces : StopHoverPiece(a)
    \/ \E a \in Pieces : DragBegin(a)
    \/ \E sq \in Squares, fault \in BOOLEAN : DragEnd(sq, fault)
    \/ \E a \in Pieces : DestroyCaptured(a)

Spec == Init /\ [][Next]_vars

\* The session from the start of the context up to its first engine move.
SetupInput ==
    /\ nMoves = 0
    /\ \/ \E sq \in Squares, fault \in BOOLEAN : ClickOnSquare(sq, fault)
       \/ \E a \in Pieces, fault \in BOOLEAN : ClickOnPiece(a, fault)
       \/ \E a \in Pieces : DragBegin(a)
       \/ \E sq \in Squares, fault \in BOOLEAN : DragEnd(sq, fault)

NextSetup ==
    \/ Started
    \/ PreloadResolves
    \/ PreloadRejects
    \/ \E b \in AllBatches : CreationCompletes(b)
    \/ \E b \in AllBatches : CreationFails(b)
    \/ addEventHandlers
    \/ JoinRejects
    \/ SetupInput

SpecSetup == InitSetup /\ [][NextSetup]_vars

(***************************************************************************)
(* The snapshot differ on its own                                          *)
(***************************************************************************)
\* The squares the boards handed to the differ are drawn from.
DiffSquares == {sq \in Squares : sq[1] = "a"}

\* Sparse boards: some of the pieces, each on a square of its own.
DiffBoards ==
    UNION {{b \in [placed -> DiffSquares] :
              \A p, q \in placed : p # q => b[p] # b[q]} :
           placed \in SUBSET Pieces}

\* A running session in which animateActorMovements is about to be called
\* with two arbitrary boards.
InitDiff ==
    /\ variant \in Variants
    /\ diffInput \in [old : DiffBoards, new : DiffBoards]
    /\ pos = InitialBoard
    /\ turn = "white"
    /\ nMoves = 0
    /\ selectedActor = Null
    /\ moveMarkers = {}
    /\ checkMarker = Off
    /\ selectedMarker = Off
    /\ actorPos = InitialBoard
    /\ shrinking = {}
    /\ destroyed = {}
    /\ hovered = {}
    /\ grabbed = Null
    /\ last = NoRun
    /\ phase = "running"
    /\ entity = [b \in AllBatches |-> IF b \in Batches(variant) THEN "created" ELSE "none"]
    /\ binding = Bound
    /\ InitTicTacToe
    /\ prefabs = {}
    /\ HatFields

ApplyDiff ==
    /\ last.handler = "none"
    /\ LET s == [Cur(FALSE) EXCEPT !.prevBoard = diffInput.old]
       IN  \E r \in {animateActorMovements(s, diffInput.old, diffInput.new)} :
              Handled("animateActorMovements", Null, Off, r)
    /\ UNCHANGED <<hovered, grabbed>>

NextDiff ==
    \/ ApplyDiff
    \/ \E a \in Pieces : DestroyCaptured(a)

SpecDiff == InitDiff /\ [][NextDiff]_vars

(***************************************************************************)
(* Sessions of the other samples                                           *)
(***************************************************************************)
\* No chess session runs.
ChessIdle ==
    /\ InitGame
    /\ variant = "click"
    /\ phase = "init"
    /\ entity = [b \in AllBatches |-> "none"]
    /\ binding = Unbound

InitTicTacToeSession ==
    /\ InitTicTacToe
    /\ ChessIdle
    /\ prefabs = {}
    /\ HatFields

NextTicTacToe ==
    \/ \E cell \in Cells : CubeClick(cell)
    \/ \E cell \in Cells : CubeHoverEnter(cell)
    \/ \E cell \in Cells : CubeHoverExit(cell)

SpecTicTacToe == InitTicTacToeSession /\ [][NextTicTacToe]_vars

InitHatSession ==
    /\ InitHat
    /\ ChessIdle
    /\ InitTicTacToe

NextHat ==
    \/ \E u \in Users : UserJoined(u)
    \/ \E h \in HatIds, u \in Users : WearHat(h, u)
    \/ \E u \in Users : UserLeft(u)

SpecHat == InitHatSession /\ [][NextHat]_vars

(***************************************************************************)
(* Properties                                                              *)
(***************************************************************************)
\* A step that runs an input handler (every step of a running session
\* except the destruction of a captured actor).
HandlerRan ==
    /\ phase = "running"
    /\ phase' = "running"
    /\ destroyed' = destroyed

\* The Status at hand has a validMoves entry of `piece` that lists `square`.
LegalFor(piece, square) ==
    /\ piece # Null
    /\ \E m \in {ValidMoves(pos, turn)[i] : i \in DOMAIN ValidMoves(pos, turn)} :
          m.src = piece /\ square \in m.squares

\* The piece and the square the next handler run decides on: the dragged
\* actor and its drop square, or the selected actor and the clicked square
\* (for a click on a piece, the square that piece stands on).
InputPiece == IF last'.handler = "onDragEnd" THEN last'.actor ELSE selectedActor

InputSquare ==
    IF last'.handler = "clickOnPiece" THEN pos[last'.actor] ELSE last'.square

MoveInput == last'.handler \in {"clickOnSquare", "clickOnPiece", "onDragEnd"}

Has(ops, name) == \E i \in DOMAIN ops : ops[i] = name

First(ops, name) == Min({i \in DOMAIN ops : ops[i] = name})

NewBoard == readOccupiedBoard(pos)

\* C1: whenever the differ has run, its Movements are exactly the pieces
\* found in both snapshots whose file or rank changed, each with its new
\* square, and its Captures are exactly the pieces of the old snapshot that
\* the new one lacks.
C1_DiffExact ==
    last.diffRan =>
        /\ last.movements =
              {[actor |-> k, oldSquare |-> last.prevBoard[k], newSquare |-> NewBoard[k]] :
                  k \in {j \in DOMAIN last.prevBoard \cap DOMAIN NewBoard :
                           NewBoard[j] # last.prevBoard[j]}}
        /\ {c.actor : c \in last.captures} = DOMAIN last.prevBoard \ DOMAIN NewBoard

\* C2: a diff of a snapshot against itself yields no Movement and no Capture.
C2_SelfDiffEmpty ==
    (last.diffRan /\ last.prevBoard = NewBoard) =>
        (last.movements = {} /\ last.captures = {})

\* C3: in every run of clickOnSquare, clickOnPiece and onDragEnd the engine's
\* move is invoked if and only if the Status of the state the handler starts
\* in lists the clicked or drop square for the selected or dragged piece, and
\* then it is invoked once, from that piece's square to that square.
C3_LegalityGating ==
    [][(HandlerRan /\ MoveInput) =>
          /\ (last'.moveCalls # <<>>) <=> LegalFor(InputPiece, InputSquare)
          /\ last'.moveCalls # <<>> =>
                last'.moveCalls = << <<pos[InputPiece], InputSquare>> >>]_vars

\* C4: a selected piece always has a validMoves entry (entries list at least
\* one destination) in the current Status.
C4_SelectedHasMove ==
    selectedActor # Null =>
        \E i \in DOMAIN ValidMoves(pos, turn) :
            ValidMoves(pos, turn)[i].src = selectedActor

\* C5: a click that makes a move hides the move markers, then invokes the
\* engine's move, then fetches the Status again, then diffs, then animates
\* and only then clears the selection; the old board is read before the move.
C5_MoveOrder ==
    (/\ last.handler \in {"clickOnSquare", "clickOnPiece"}
     /\ last.moveCalls # <<>>
     /\ ~last.threw) =>
        /\ Has(last.ops, "hideMoveMarkers")
        /\ First(last.ops, "hideMoveMarkers") < First(last.ops, "move")
        /\ First(last.ops, "readPrevBoard") < First(last.ops, "move")
        /\ \E i \in DOMAIN last.ops :
              /\ last.ops[i] = "getStatus"
              /\ First(last.ops, "move") < i
              /\ i < First(last.ops, "diff")
        /\ First(last.ops, "diff") < First(last.ops, "animate")
        /\ First(last.ops, "animate") < First(last.ops, "clearSelection")
        /\ last.ops[Len(last.ops)] = "clearSelection"

\* C6: the handlers are attached only when every creation started() issued
\* has completed.
C6_SetupJoin ==
    phase = "running" => \A b \in Batches(variant) : entity[b] = "created"

\* C7: when the engine throws in the move of a handler run (move was invoked
\* and no move was made), the handler does not throw and the selection, the
\* selected marker, the move markers and the check marker are all as before
\* or all reset.
C7_EngineFaultAtomic ==
    [][(HandlerRan /\ last'.moveCalls # <<>> /\ nMoves' = nMoves) =>
          /\ ~last'.threw
          /\ \/ /\ selectedActor' = selectedActor
                /\ selectedMarker' = selectedMarker
                /\ moveMarkers' = moveMarkers
                /\ checkMarker' = checkMarker
             \/ /\ selectedActor' = Null
                /\ selectedMarker' = Off
                /\ moveMarkers' = {}
                /\ checkMarker' = Off]_vars

\* C8: a click or drop that is not a legal move invokes no engine move and
\* issues no Movement and no Capture, and a click on a square with nothing
\* selected leaves the selection idle and every marker as it was.
C8_IllegalInputNoOp ==
    [][(HandlerRan /\ MoveInput /\ ~LegalFor(InputPiece, InputSquare)) =>
          /\ last'.moveCalls = <<>>
          /\ last'.movements = {}
          /\ last'.captures = {}
          /\ (last'.handler = "clickOnSquare" /\ selectedActor = Null) =>
                /\ selectedActor' = Null
                /\ selectedMarker' = selectedMarker
                /\ moveMarkers' = moveMarkers
                /\ checkMarker' = checkMarker]_vars

\* C9: a click on the piece that the click just before it selected returns
\* the selection to idle and hides the selected marker and every move marker.
C9_SelectionToggle ==
    [][(/\ HandlerRan
        /\ last'.handler = "clickOnPiece"
        /\ last'.again
        /\ selectedActor = last'.actor) =>
          /\ selectedActor' = Null
          /\ selectedMarker' = Off
          /\ moveMarkers' = {}]_vars

\* A second click in a row on the same piece has toggled the selection off.
C9_Witness ==
    /\ last.handler = "clickOnPiece"
    /\ last.again
    /\ last.ops = <<"hideSelectedMarker", "hideMoveMarkers", "clearSelection">>
    /\ selectedActor = Null
    /\ selectedMarker = Off
    /\ moveMarkers = {}

\* C10: with a piece selected, a click on another piece that stands on one
\* of its legal destinations makes that move, capturing the clicked piece,
\* and leaves the selection idle (the engine not throwing).
C10_TieBreakMoves ==
    [][(/\ HandlerRan
        /\ last'.handler = "clickOnPiece"
        /\ ~last'.threw
        /\ selectedActor # last'.actor
        /\ LegalFor(selectedActor, pos[last'.actor])) =>
          /\ pos'[selectedActor] = pos[last'.actor]
          /\ pos'[last'.actor] = Off
          /\ selectedActor' = Null]_vars

\* The squares the current Status lists as destinations of `piece`.
DestinationsOf(piece) == {sq \in Squares : LegalFor(piece, sq)}

ClickOrHover == {"clickOnSquare", "clickOnPiece", "startHoverPiece", "stopHoverPiece"}

\* The last handler run made a move: the engine's move was invoked and returned.
MoveMade == last.moveCalls # <<>> /\ ~last.threw

\* C11: with a piece selected, a click on a square that the Status does not
\* list among that piece's destinations leaves the selection idle, the
\* selected marker and every move marker hidden, and invokes no engine move.
C11_DeselectOnNonDestination ==
    [][(/\ HandlerRan
        /\ last'.handler = "clickOnSquare"
        /\ selectedActor # Null
        /\ ~LegalFor(selectedActor, last'.square)) =>
          /\ selectedActor' = Null
          /\ selectedMarker' = Off
          /\ moveMarkers' = {}
          /\ last'.moveCalls = <<>>]_vars

\* C12: after a hover or click event every visible move marker is on a legal
\* destination, in the current Status, of the selected piece or of a piece a
\* hover is in progress on; with nothing selected and no hover in progress,
\* and after a move was made, no move marker is visible.
C12_MarkersNotAdditive ==
    (last.handler \in ClickOrHover /\ ~last.threw) =>
        /\ moveMarkers \subseteq
              DestinationsOf(selectedActor) \cup UNION {DestinationsOf(h) : h \in hovered}
        /\ (selectedActor = Null /\ hovered = {}) => moveMarkers = {}
        /\ MoveMade => moveMarkers = {}

\* C13: after every move that was made the selection is idle and the
\* selected marker is hidden.
C13_IdleAfterMove ==
    MoveMade => (selectedActor = Null /\ selectedMarker = Off)

\* A click on a piece made a capturing move and left the selection idle.
C13_Witness ==
    /\ MoveMade
    /\ last.handler = "clickOnPiece"
    /\ last.captures # {}
    /\ pos[last.actor] = Off
    /\ selectedActor = Null
    /\ selectedMarker = Off

\* C14: a move onto an occupied square yields exactly one Movement, of the
\* moving piece to the destination, and exactly one Capture, of the piece
\* that stood there; and an actor is destroyed only while its shrink-out,
\* started by a Capture, is under way.
C14_CaptureDiff ==
    [][/\ (/\ HandlerRan
           /\ last'.moveCalls # <<>>
           /\ ~last'.threw
           /\ PieceAt(pos, last'.moveCalls[1][2]) # Null) =>
             LET mover == PieceAt(pos, last'.moveCalls[1][1])
                 taken == PieceAt(pos, last'.moveCalls[1][2])
             IN  /\ last'.movements =
                       {[actor |-> mover, oldSquare |-> pos[mover],
                         newSquare |-> last'.moveCalls[1][2]]}
                 /\ last'.captures = {[actor |-> taken, oldSquare |-> pos[taken]]}
                 /\ taken \in shrinking'
                 /\ taken \notin destroyed'
       /\ \A a \in destroyed' \ destroyed : a \in shrinking /\ pos[a] = Off]_vars

\* C15: in a running session no actor is created, a destroyed actor stays
\* destroyed and is never scheduled for destruction again, an actor is
\* destroyed only when its piece was captured, and a diff emits a Capture
\* only for a piece that stood on the board until this move.
C15_EntityLifecycle ==
    [][/\ entity' = entity
       /\ destroyed \subseteq destroyed'
       /\ shrinking' \cap destroyed' = {}
       /\ \A a \in destroyed' \ destroyed : a \in shrinking /\ pos[a] = Off
       /\ HandlerRan =>
             \A c \in last'.captures :
                /\ pos[c.actor] # Off
                /\ pos'[c.actor] = Off
                /\ c.actor \notin shrinking \cup destroyed]_vars

\* A captured actor was destroyed and a later diff emitted no Capture.
C15_Witness ==
    /\ destroyed # {}
    /\ last.diffRan
    /\ last.captures = {}
    /\ shrinking = {}
    /\ \A a \in destroyed : pos[a] = Off

\* C16: the handlers are never attached in a session in which a creation
\* issued by started() has failed.
C16_FailClosed ==
    ~(phase = "running" /\ \E b \in Batches(variant) : entity[b] = "failed")

C20_HoverExitOfOther ==
    [][(/\ HandlerRan
        /\ last.handler = "startHoverPiece"
        /\ last'.handler = "stopHoverPiece"
        /\ last'.actor # last.actor) =>
          moveMarkers' = moveMarkers]_vars

\* Some line of the board holds three equal marks.
LineOf(piece) ==
    \E i \in DOMAIN victoryChecks :
       \A k \in 1..3 : boardState[victoryChecks[i][k]] = piece

BoardFull == \A c \in Cells : boardState[c] # Undefined

\* C18: whenever a line holds three equal marks the game is in Celebration
\* and the text announces the player of that line (the one who just placed)
\* as the winner, also when the board is full; and "Tie" is announced only
\* on a full board without a complete line.
C18_WinOrTie ==
    /\ \A piece \in GamePiece :
          LineOf(piece) => (gameState = "Celebration" /\ textContents = WinnerText(piece))
    /\ textContents = "Tie" =>
          (BoardFull /\ ~LineOf("X") /\ ~LineOf("O"))

\* The hat actors of a user that have not been destroyed.
LiveHats(actors, u) ==
    {i \in DOMAIN actors : actors[i].userId = u /\ ~actors[i].destroyed}

\* C19: a user never has two live hat actors and the live one is the one
\* attachedHats holds; choosing a hat destroys the hat worn before and, if
\* the new one is attached, leaves it the only live one; choosing the entry
\* without a resource leaves the user without a hat; after a user left, the
\* hat is destroyed and attachedHats has no entry for the user.
C19_OneHatPerUser ==
    [][/\ \A u \in Users :
             /\ Cardinality(LiveHats(hatActors', u)) <= 1
             /\ LiveHats(hatActors', u) = {attachedHats'[u]} \ {0}
       /\ hatLast' # hatLast \/ hatActors' # hatActors \/ attachedHats' # attachedHats =>
             LET u == hatLast'.userId
             IN  /\ LiveHats(hatActors, u) \cap LiveHats(hatActors', u) = {}
                 /\ (hatLast'.handler = "wearHat" /\ hatLast'.hatId = "none") =>
                       (LiveHats(hatActors', u) = {} /\ attachedHats'[u] = 0)
                 /\ hatLast'.handler = "userLeft" =>
                       (LiveHats(hatActors', u) = {} /\ attachedHats'[u] = 0)]_vars

\* A user who wore a hat chose another: the first is destroyed, the second
\* is attached.
C19_Witness ==
    /\ hatLast.handler = "wearHat"
    /\ ~hatLast.threw
    /\ \E i, j \in DOMAIN hatActors :
          /\ i < j
          /\ hatActors[i].userId = hatLast.userId
          /\ hatActors[j].userId = hatLast.userId
          /\ hatActors[i].destroyed
          /\ ~hatActors[j].destroyed
          /\ attachedHats[hatLast.userId] = j

\* C21: a create call that passes the id of the scene root or of the board
\* offset as parentId is issued only when the creation of that parent has
\* completed.
C21_ParentCreatedFirst ==
    [][\A b \in Batches(variant) :
          (entity[b] = "none" /\ entity'[b] # "none" /\ Parent(variant, b) # Null) =>
             entity[Parent(variant, b)] = "created"]_vars

\* C22: when the new board handed to the differ holds a piece the old board
\* lacks, the differ raises or reports an error and emits no Movement and no
\* Capture for that piece.
C22_NewPieceIsError ==
    (/\ last.handler = "animateActorMovements"
     /\ DOMAIN diffInput.new \ DOMAIN diffInput.old # {}) =>
        /\ last.threw
        /\ \A k \in DOMAIN diffInput.new \ DOMAIN diffInput.old :
              /\ \A m \in last.movements : m.actor # k
              /\ \A c \in last.captures : c.actor # k

HoverHandlers == {"startHoverPiece", "stopHoverPiece"}

\* C23: a hover-enter or hover-exit changes neither the selection nor the
\* selected marker; with a piece selected, the hover-enter of a piece shows
\* exactly the destinations of both, and the hover-exit of that piece right
\* after it shows exactly those of the selected piece.
C23_HoverOrthogonal ==
    [][(HandlerRan /\ last'.handler \in HoverHandlers) =>
          /\ selectedActor' = selectedActor
          /\ selectedMarker' = selectedMarker
          /\ (selectedActor # Null /\ last'.handler = "startHoverPiece") =>
                moveMarkers' =
                   DestinationsOf(selectedActor) \cup DestinationsOf(last'.actor)
          /\ (/\ selectedActor # Null
              /\ last'.handler = "stopHoverPiece"
              /\ last.handler = "startHoverPiece"
              /\ last.actor = last'.actor) =>
                moveMarkers' = DestinationsOf(selectedActor)]_vars

\* C24: in a running session no step assigns square.actor, square.marker or
\* piece.actor again or removes one of them.
C24_BindingsFrozen ==
    [][phase = "running" => binding' = binding]_vars

\* Moves were made, one of them a capture whose actor was then destroyed,
\* and every binding is as setup assigned it.
C24_Witness ==
    /\ nMoves = 2
    /\ last.diffRan
    /\ last.movements # {}
    /\ destroyed # {}
    /\ binding = Bound

\* C25: the last position commanded for the actor of every piece on the
\* board (its initial placement, its latest movement animation, or where it
\* was dropped) is the square the piece occupies.
C25_VisualMatchesBoard ==
    \A p \in Pieces : pos[p] # Off => actorPos[p] = pos[p]

\* C26: the selected piece is on the board, and a click on the actor of a
\* captured piece neither selects that piece nor throws.
C26_NoSelectCaptured ==
    [][HandlerRan =>
          /\ selectedActor' # Null => pos'[selectedActor'] # Off
          /\ (last'.handler = "clickOnPiece" /\ pos[last'.actor] = Off) =>
                (~last'.threw /\ selectedActor' # last'.actor)]_vars

\* C27: after a handled input the check marker is shown, on the king's
\* square, exactly when the side to move is in check, and an input that
\* makes no move leaves the check marker as it was.
C27_CheckMarkerIffCheck ==
    [][HandlerRan =>
          /\ (checkMarker' # Off) <=> IsCheck(pos', turn')
          /\ checkMarker' # Off => checkMarker' = pos'[KingOf(turn')]
          /\ nMoves' = nMoves => checkMarker' = checkMarker]_vars

\* The step ran the click handler of a cube.
CubeClicked == tttLast'.handler = "onClick"

\* The cells of a board that hold a mark, and those that hold a given one.
Marked(board) == {c \in Cells : board[c] # Undefined}

MarksOf(board, piece) == {c \in Cells : board[c] = piece}

\* C28: the game state is Intro, Play or Celebration; a click in Intro moves
\* to Play and places nothing; a mark or a game piece is added only by a
\* click in Play; Play is left only for Celebration and only with a complete
\* line or a full board; Celebration is left only by a click, for Intro,
\* with the board empty, every game piece destroyed and X the first player.
C28_GameStateMachine ==
    [][/\ gameState' \in {"Intro", "Play", "Celebration"}
       /\ gameState = "Intro" =>
             /\ CubeClicked => gameState' = "Play"
             /\ ~CubeClicked => gameState' = "Intro"
             /\ boardState' = boardState
             /\ gamePieceActors' = gamePieceActors
             /\ livePieces' = livePieces
       /\ (\E c \in Cells : \/ boardState'[c] \notin {Undefined, boardState[c]}
                            \/ gamePieceActors'[c] > gamePieceActors[c]
                            \/ livePieces'[c] > livePieces[c]) =>
             (gameState = "Play" /\ CubeClicked)
       /\ (gameState = "Play" /\ gameState' # "Play") =>
             /\ CubeClicked
             /\ gameState' = "Celebration"
             /\ VictoryCheckHits(boardState') \/ Marked(boardState') = Cells
       /\ gameState = "Celebration" =>
             /\ ~CubeClicked => (gameState' = "Celebration" /\ boardState' = boardState)
             /\ CubeClicked =>
                   /\ gameState' = "Intro"
                   /\ boardState' = EmptyBoardState
                   /\ gamePieceActors' = NoActors
                   /\ livePieces' = NoActors
                   /\ currentPlayerGamePiece' = "X"
                   /\ nextPlayerGamePiece' = "O"]_vars

\* A finished game was clicked away: the sample is back in Intro with
\* nothing on the board.
C28_Witness ==
    /\ gameState = "Intro"
    /\ tttLast.handler = "onClick"
    /\ boardState = EmptyBoardState
    /\ livePieces = NoActors

RECURSIVE LiveFrom(_, _)
\* The number of game-piece actors alive on the cells from c on.
LiveFrom(live, c) == IF c \notin Cells THEN 0 ELSE live[c] + LiveFrom(live, c + 1)

\* C29: except for the click that leaves Celebration, no step changes or
\* clears a cell that holds a mark; a hover leaves the board as it is; and
\* the game-piece actors alive are as many as the marked cells.
C29_BoardIntegrity ==
    [][/\ ~(gameState = "Celebration" /\ CubeClicked) =>
             \A c \in Marked(boardState) : boardState'[c] = boardState[c]
       /\ tttLast'.handler \in {"onHoverEnter", "onHoverExit"} =>
             boardState' = boardState
       /\ LiveFrom(livePieces', 0) = Cardinality(Marked(boardState'))]_vars

\* In a game with several marks a marked cell was clicked and nothing
\* happened.
C29_Witness ==
    /\ gameState = "Play"
    /\ tttLast.handler = "onClick"
    /\ tttLast.anims = <<>>
    /\ boardState[tttLast.cell] # Undefined
    /\ Cardinality(Marked(boardState)) >= 3
    /\ LiveFrom(livePieces, 0) = Cardinality(Marked(boardState))

\* C30: the mark put on an empty cell is X when the board holds an even
\* number of marks and O otherwise; the current and the next piece differ;
\* a click on an occupied cell in Play leaves both as they are; and the
\* board holds as many X as O, or one X more.
C30_TurnAlternation ==
    [][/\ \A c \in Cells :
             (boardState[c] = Undefined /\ boardState'[c] # Undefined) =>
                boardState'[c] =
                   IF Cardinality(Marked(boardState)) % 2 = 0 THEN "X" ELSE "O"
       /\ currentPlayerGamePiece' # nextPlayerGamePiece'
       /\ (/\ CubeClicked
           /\ gameState = "Play"
           /\ boardState[tttLast'.cell] # Undefined) =>
             /\ currentPlayerGamePiece' = currentPlayerGamePiece
             /\ nextPlayerGamePiece' = nextPlayerGamePiece
       /\ Cardinality(MarksOf(boardState', "X"))
             - Cardinality(MarksOf(boardState', "O")) \in {0, 1}]_vars

\* X, O and X were placed in turn and it is O's turn.
C30_Witness ==
    /\ gameState = "Play"
    /\ tttLast.handler = "onClick"
    /\ tttLast.anims # <<>>
    /\ Cardinality(MarksOf(boardState, "X")) = 2
    /\ Cardinality(MarksOf(boardState, "O")) = 1
    /\ currentPlayerGamePiece = "O"
    /\ nextPlayerGamePiece = "X"

====
